---- MODULE Spec2Model ----
(***************************************************************************)
(* The agent control loop of pinky (src/tools.go): the Brain with its      *)
(* history, tool registry and limit; Start (the start-up form), start (the *)
(* outer loop), prompt, loop, chat and callTools.  The collaborators (the  *)
(* forms, the model backend, the tools' Run) are inputs drawn with \E.     *)
(***************************************************************************)
EXTENDS Integers, Sequences, FiniteSets, TLC

VARIABLES
    model,      \* Brain.model
    limit,      \* Brain.limit
    history,    \* Brain.history
    tools,      \* Brain.tools: tool name -> implementation
    pc,         \* position of the program: "form", "start" (head of the for loop), "done"
    err,        \* the error Start returned (NoErr while running or on a nil return)
    action,     \* the operation the last step ran
    runs,       \* the Run invocations of the last callTools, in the order made
    sent,       \* the ChatRequest of the last chat
    received,   \* what the callback of the last chat stored in `message`
    consumed,   \* the batches callTools ran to the end: where the batch is and
                \* where its results are in the history
    steps       \* the number of iterations the for loop of start has begun

vars == <<model, limit, history, tools, pc, err, action, runs, sent, received, consumed, steps>>

----------------------------------------------------------------------------
(* Bounds of the model *)

\* longest ToolCalls list the backend returns
MaxCalls == 2

\* no iteration is explored once the history holds this many messages
MaxHistory == 5

----------------------------------------------------------------------------
(* Values *)

NoErr == "nil"

Message(role, content, calls) ==
    [Role |-> role, Content |-> content, ToolCalls |-> calls]

\* the zero value of api.Message, as make([]api.Message, n) fills a slice
ZeroMessage == Message("", "", <<>>)

ToolCall(name) == [Name |-> name]

\* names a tool-call request may carry: the registered ones and one that no registry holds
CallNames == {"get_weather", "lookup", "no_such_tool"}

SeqsUpTo(S, n) == UNION {[1..k -> S] : k \in 0..n}

CallLists == SeqsUpTo({ToolCall(n) : n \in CallNames}, MaxCalls)

\* the registry NewBrain installs
defaultTools == [n \in {"get_weather"} |-> "weather"]

\* registries a Brain runs with: the default one, and one that also holds
\* another implementation of the Tool interface
Registries ==
    {defaultTools,
     [n \in {"get_weather", "lookup"} |->
        IF n = "get_weather" THEN "weather" ELSE "tool"]}

\* strings.ToLower on the roles that occur
ToLower(s) ==
    CASE s = "ASSISTANT" -> "assistant"
      [] s = "Assistant" -> "assistant"
      [] OTHER -> s

\* what the model backend delivers to the callback of Chat: a plain message,
\* possibly empty, or one that carries tool calls
BackendMessages ==
    {Message(r, c, <<>>) : r \in {"assistant", "ASSISTANT"}, c \in {"", "ok"}}
        \cup {Message(r, "", tc) : r \in {"assistant", "ASSISTANT"}, tc \in CallLists \ {<<>>}}

ChatErrors == {"backend error", "context canceled"}

\* what Run of a Tool other than weather returns: a message or an error
ToolMessages ==
    {Message("lookup", "r1", <<>>),
     Message("assistant", "r1", <<>>),
     Message("lookup", "", <<ToolCall("get_weather")>>)}

ToolErrors == {"tool failed", "context canceled"}

ToolOutcomes ==
    {[err |-> NoErr, msg |-> m] : m \in ToolMessages}
        \cup {[err |-> e, msg |-> ZeroMessage] : e \in ToolErrors}

----------------------------------------------------------------------------
(* strconv.Atoi on a string given as its sequence of characters *)

Digits == {"0", "1", "2", "3", "4", "5", "6", "7", "8", "9"}

DigitVal(c) ==
    CASE c = "0" -> 0 [] c = "1" -> 1 [] c = "2" -> 2 [] c = "3" -> 3 [] c = "4" -> 4
      [] c = "5" -> 5 [] c = "6" -> 6 [] c = "7" -> 7 [] c = "8" -> 8 [] c = "9" -> 9

RECURSIVE DigitsVal(_)
DigitsVal(s) ==
    IF s = <<>> THEN 0
    ELSE 10 * DigitsVal(SubSeq(s, 1, Len(s) - 1)) + DigitVal(s[Len(s)])

Atoi(s) ==
    LET signed == s # <<>> /\ s[1] \in {"+", "-"}
        body == IF signed THEN Tail(s) ELSE s
    IN  IF body = <<>> \/ \E i \in 1..Len(body) : body[i] \notin Digits
        THEN [ok |-> FALSE, n |-> 0]
        ELSE [ok |-> TRUE,
              n |-> IF signed /\ s[1] = "-" THEN 0 - DigitsVal(body) ELSE DigitsVal(body)]

\* what the operator may type into the fields of the start-up form
LimitInputs == {<<"0">>, <<"2">>, <<"3">>, <<"4">>, <<"-", "1">>, <<"1">>, <<"x">>, <<>>}
ModelInputs == {"qwen3", "llama3"}
SystemInputs == {"", "be brief"}
PromptInputs == {"", "hi"}

\* Validate, but accepting every input
ValidateAnything(s) == TRUE

\* the Validate function of both prompt fields
ValidatePrompt(s) == s # ""

----------------------------------------------------------------------------
(* Brain *)

\* main: NewBrain("qwen3", 0); the registry is the one the Brain was built with
Init ==
    /\ model = "qwen3"
    /\ limit = 0
    /\ history = <<>>
    /\ tools \in Registries
    /\ pc = "form"
    /\ err = NoErr
    /\ action = "new"
    /\ runs = <<>>
    /\ sent = [Model |-> "", Messages |-> <<>>, Tools |-> {}, Think |-> FALSE, Stream |-> FALSE]
    /\ received = ZeroMessage
    /\ consumed = <<>>
    /\ steps = 0

\* Tool.Description: the descriptor of a registered tool
Description(name) == [Name |-> name]

\* request, but leaving the backend to stream
requestStreaming ==
    [Model |-> model,
     Messages |-> history,
     Tools |-> {Description(n) : n \in DOMAIN tools},
     Think |-> TRUE,
     Stream |-> TRUE]

\* Brain.request
request ==
    [Model |-> model,
     Messages |-> history,
     Tools |-> {Description(n) : n \in DOMAIN tools},
     Think |-> TRUE,
     Stream |-> FALSE]

\* Run, but with weather answering in the role of the assistant
RunAsAssistant(impl, call, out) ==
    IF impl = "weather"
    THEN [err |-> NoErr, msg |-> Message("assistant", "it is hot", <<>>)]
    ELSE out

\* Tool.Run: weather answers the same message whatever the call and never
\* fails; another Tool answers what its outcome `out` says
Run(impl, call, out) ==
    IF impl = "weather"
    THEN [err |-> NoErr, msg |-> Message("get_weather", "it is hot", <<>>)]
    ELSE out

\* prompt, but writing the new message over the latest one
promptOverLatest(form) ==
    IF form.err # NoErr
    THEN [err |-> form.err, history |-> history]
    ELSE [err |-> NoErr,
          history |-> Append(SubSeq(history, 1, Len(history) - 1),
                             Message("user", form.content, <<>>))]

\* Brain.prompt: the form fails (the operator aborts), or it hands over a
\* content its Validate accepted, appended as a "user" message
prompt(form) ==
    IF form.err # NoErr
    THEN [err |-> form.err, history |-> history]
    ELSE [err |-> NoErr, history |-> Append(history, Message("user", form.content, <<>>))]

\* the for loop of Brain.callTools from index i on: responses is the local
\* slice, log the Run invocations made so far
RECURSIVE callToolsFrom(_, _, _, _, _)
callToolsFrom(i, calls, outs, responses, log) ==
    IF i > Len(calls)
    THEN [err |-> NoErr, responses |-> responses, runs |-> log]
    ELSE LET c == calls[i]
         IN  IF c.Name \notin DOMAIN tools
             THEN [err |-> "called non-exist tool", responses |-> responses, runs |-> log]
             ELSE LET res == Run(tools[c.Name], c, outs[i])
                      log2 == Append(log, [index |-> i, call |-> c, res |-> res])
                  IN  IF res.err # NoErr
                      THEN [err |-> res.err, responses |-> responses, runs |-> log2]
                      ELSE callToolsFrom(i + 1, calls, outs,
                                         [responses EXCEPT ![i] = res.msg], log2)

Reverse(s) == [i \in 1..Len(s) |-> s[Len(s) + 1 - i]]

\* callTools, but appending the responses last first
callToolsReversed(calls, outs) ==
    LET r == callToolsFrom(1, calls, outs, [j \in 1..Len(calls) |-> ZeroMessage], <<>>)
    IN  [err |-> r.err,
         history |-> IF r.err = NoErr THEN history \o Reverse(r.responses) ELSE history,
         runs |-> r.runs]

\* callTools, but appending each response as soon as Run returned it
callToolsBestEffort(calls, outs) ==
    LET r == callToolsFrom(1, calls, outs, [j \in 1..Len(calls) |-> ZeroMessage], <<>>)
        ran == Cardinality({j \in 1..Len(r.runs) : r.runs[j].res.err = NoErr})
    IN  [err |-> r.err,
         history |-> history \o SubSeq(r.responses, 1, ran),
         runs |-> r.runs]

\* callTools, but answering a request for an unregistered tool with a message
callToolsSkipUnknown(calls, outs) ==
    LET r == callToolsFrom(1, calls, outs, [j \in 1..Len(calls) |-> ZeroMessage], <<>>)
    IN  [err |-> r.err,
         history |-> IF r.err = NoErr THEN history \o r.responses
                     ELSE IF r.err = "called non-exist tool"
                          THEN Append(history, Message("tool", r.err, <<>>))
                          ELSE history,
         runs |-> r.runs]

\* callTools, but dropping the responses of a batch that ran to the end
callToolsNoAppend(calls, outs) ==
    LET r == callToolsFrom(1, calls, outs, [j \in 1..Len(calls) |-> ZeroMessage], <<>>)
    IN  [err |-> r.err, history |-> history, runs |-> r.runs]

\* Brain.callTools: outs[i] is what Run of the i-th call answers if it is invoked
callTools(calls, outs) ==
    LET r == callToolsFrom(1, calls, outs, [j \in 1..Len(calls) |-> ZeroMessage], <<>>)
    IN  [err |-> r.err,
         history |-> IF r.err = NoErr THEN history \o r.responses ELSE history,
         runs |-> r.runs]

\* chat, but appending `message` before looking at the error
chatAppendFirst(reply) ==
    [err |-> reply.err,
     history |-> Append(history, reply.msg),
     sent |-> request]

\* chat, but with a callback that does not store the message
chatNoStore(reply) ==
    [err |-> reply.err,
     history |-> IF reply.err # NoErr THEN history ELSE Append(history, ZeroMessage),
     sent |-> request]

\* Brain.chat: reply.msg is what the callback stored in `message`, reply.err
\* what client.Chat returned
chat(reply) ==
    [err |-> reply.err,
     history |-> IF reply.err # NoErr THEN history ELSE Append(history, reply.msg),
     sent |-> request]

\* the loop condition, but taking every limit below 1 as no limit
LoopCondNonPositive == Len(history) <= limit \/ limit <= 0

\* the loop condition of a for loop without condition
LoopCondAlways == TRUE

\* the loop condition, but without the test for limit 0
LoopCondNoZero == Len(history) <= limit

\* the loop condition, but allowing one message more
LoopCondOneMore == Len(history) <= limit + 1 \/ limit = 0

\* the condition of the for loop of Brain.start
LoopCond == Len(history) <= limit \/ limit = 0

\* the branch of start, but without the test for the role
StartBranchAnyPlain(latest) ==
    IF Len(latest.ToolCalls) = 0 THEN "prompt" ELSE "loop"

\* the branch of start, but without the test for tool calls
StartBranchRoleOnly(latest) ==
    IF ToLower(latest.Role) = "assistant" THEN "prompt" ELSE "loop"

\* the branch Brain.start takes on the latest message
StartBranch(latest) ==
    IF Len(latest.ToolCalls) = 0 /\ ToLower(latest.Role) = "assistant"
    THEN "prompt"
    ELSE "loop"

\* the branch Brain.loop takes on the latest message
LoopBranch(latest) ==
    IF Len(latest.ToolCalls) # 0 THEN "callTools" ELSE "chat"

\* start after a step, but going on after an error
AfterStepGoOn(e) == "start"

\* Brain.start after a step: an error is returned at once, otherwise the for
\* loop goes back to its condition
AfterStep(e) == IF e # NoErr THEN "done" ELSE "start"

Latest == history[Len(history)]

\* the collaborators' answers
PromptForms ==
    {[err |-> NoErr, content |-> s] : s \in {x \in PromptInputs : ValidatePrompt(x)}}
        \cup {[err |-> "user aborted", content |-> s] : s \in PromptInputs}

ChatReplies ==
    {[err |-> NoErr, msg |-> m] : m \in BackendMessages}
        \cup {[err |-> e, msg |-> m] :
                e \in ChatErrors, m \in {ZeroMessage, Message("assistant", "ok", <<>>)}}

\* outs names one outcome for each call: a call whose Run is not one of those
\* that answer an outcome gets the first of them
Answers(calls, outs) ==
    \A i \in 1..Len(calls) :
        (calls[i].Name \in DOMAIN tools /\ tools[calls[i].Name] = "tool")
            \/ outs[i] = [err |-> NoErr, msg |-> Message("lookup", "r1", <<>>)]

\* the model explores an iteration only while the history is short
Explored == Len(history) < MaxHistory

----------------------------------------------------------------------------
(* Steps of the program *)

\* Start, but seeding the user message before the system message
StartFormUserFirst ==
    /\ pc = "form"
    /\ \E m \in ModelInputs, l \in LimitInputs, s \in SystemInputs, p \in PromptInputs :
          /\ Atoi(l).ok
          /\ ValidatePrompt(p)
          /\ model' = m
          /\ limit' = Atoi(l).n
          /\ history' = history \o <<Message("user", p, <<>>), Message("system", s, <<>>)>>
    /\ pc' = "start"
    /\ err' = NoErr
    /\ action' = "form"
    /\ UNCHANGED <<tools, runs, sent, received, consumed, steps>>

\* Brain.Start, the form succeeds: every field passed its Validate; the limit
\* field's Validate stored the parsed limit; history gets the two seeds
StartForm ==
    /\ pc = "form"
    /\ \E m \in ModelInputs, l \in LimitInputs, s \in SystemInputs, p \in PromptInputs :
          /\ Atoi(l).ok
          /\ ValidatePrompt(p)
          /\ model' = m
          /\ limit' = Atoi(l).n
          /\ history' = history \o <<Message("system", s, <<>>), Message("user", p, <<>>)>>
    /\ pc' = "start"
    /\ err' = NoErr
    /\ action' = "form"
    /\ UNCHANGED <<tools, runs, sent, received, consumed, steps>>

\* Brain.Start, the form fails: Start returns the error; the fields bound to
\* the Brain may already have been set
StartFormAbort ==
    /\ pc = "form"
    /\ model' \in ModelInputs
    /\ limit' \in {limit} \cup {Atoi(l).n : l \in {x \in LimitInputs : Atoi(x).ok}}
    /\ pc' = "done"
    /\ err' = "user aborted"
    /\ action' = "form"
    /\ UNCHANGED <<history, tools, runs, sent, received, consumed, steps>>

\* one iteration of Brain.start that prompts the operator
PromptStep ==
    /\ pc = "start" /\ Explored
    /\ LoopCond
    /\ StartBranch(Latest) = "prompt"
    /\ \E form \in PromptForms :
          LET r == prompt(form)
          IN  /\ history' = r.history
              /\ err' = r.err
              /\ pc' = AfterStep(r.err)
    /\ action' = "prompt"
    /\ steps' = steps + 1
    /\ UNCHANGED <<model, limit, tools, runs, sent, received, consumed>>

\* the callTools iteration, but with tools that are taken out of the registry
\* once they have run
CallToolsStepOneShot ==
    /\ pc = "start" /\ Explored
    /\ LoopCond
    /\ StartBranch(Latest) = "loop"
    /\ LoopBranch(Latest) = "callTools"
    /\ \E outs \in [1..Len(Latest.ToolCalls) -> ToolOutcomes] :
          LET r == callTools(Latest.ToolCalls, outs)
              ran == {r.runs[j].call.Name : j \in 1..Len(r.runs)}
          IN  /\ Answers(Latest.ToolCalls, outs)
              /\ history' = r.history
              /\ runs' = r.runs
              /\ consumed' = IF r.err # NoErr THEN consumed
                              ELSE Append(consumed, [at |-> Len(history),
                                                     first |-> Len(history) + 1,
                                                     last |-> Len(r.history)])
              /\ err' = r.err
              /\ pc' = AfterStep(r.err)
              /\ tools' = [n \in DOMAIN tools \ ran |-> tools[n]]
    /\ action' = "callTools"
    /\ steps' = steps + 1
    /\ UNCHANGED <<model, limit, sent, received>>

\* one iteration of Brain.start that runs Brain.loop, which runs callTools
CallToolsStep ==
    /\ pc = "start" /\ Explored
    /\ LoopCond
    /\ StartBranch(Latest) = "loop"
    /\ LoopBranch(Latest) = "callTools"
    /\ \E outs \in [1..Len(Latest.ToolCalls) -> ToolOutcomes] :
          LET r == callTools(Latest.ToolCalls, outs)
          IN  /\ Answers(Latest.ToolCalls, outs)
              /\ history' = r.history
              /\ runs' = r.runs
              /\ consumed' = IF r.err # NoErr THEN consumed
                              ELSE Append(consumed, [at |-> Len(history),
                                                     first |-> Len(history) + 1,
                                                     last |-> Len(r.history)])
              /\ err' = r.err
              /\ pc' = AfterStep(r.err)
    /\ action' = "callTools"
    /\ steps' = steps + 1
    /\ UNCHANGED <<model, limit, tools, sent, received>>

\* one iteration of Brain.start that runs Brain.loop, which runs chat
ChatStep ==
    /\ pc = "start" /\ Explored
    /\ LoopCond
    /\ StartBranch(Latest) = "loop"
    /\ LoopBranch(Latest) = "chat"
    /\ \E reply \in ChatReplies :
          LET r == chat(reply)
          IN  /\ history' = r.history
              /\ sent' = r.sent
              /\ received' = reply.msg
              /\ err' = r.err
              /\ pc' = AfterStep(r.err)
    /\ action' = "chat"
    /\ steps' = steps + 1
    /\ UNCHANGED <<model, limit, tools, runs, consumed>>

\* Brain.start leaves the for loop: show, return nil
Exit ==
    /\ pc = "start"
    /\ ~LoopCond
    /\ pc' = "done"
    /\ err' = NoErr
    /\ action' = "show"
    /\ UNCHANGED <<model, limit, history, tools, runs, sent, received, consumed, steps>>

Next ==
    \/ StartForm
    \/ StartFormAbort
    \/ PromptStep
    \/ CallToolsStep
    \/ ChatStep
    \/ Exit

Spec == Init /\ [][Next]_vars

\* every call of a collaborator returns: a step that can be taken is taken
FairSpec == Spec /\ WF_vars(Next)

----------------------------------------------------------------------------
(* Properties *)

IsPrefix(s, t) == Len(s) <= Len(t) /\ SubSeq(t, 1, Len(s)) = s

\* a step of the program that runs callTools, chat, prompt
IsPrompt == pc = "start" /\ action' = "prompt"
IsCallTools == pc = "start" /\ action' = "callTools"
IsChat == pc = "start" /\ action' = "chat"

\* C1: a callTools on n >= 1 requests that all name registered tools whose Run
\* succeeds appends exactly n messages, the i-th being what Run answered to
\* the i-th request
C1_ResultsInRequestOrder ==
    [][(IsCallTools /\ err' = NoErr) =>
        LET calls == Latest.ToolCalls
            n == Len(calls)
        IN  /\ n >= 1
            /\ Len(history') = Len(history) + n
            /\ IsPrefix(history, history')
            /\ Len(runs') = n
            /\ \A i \in 1..n :
                  /\ runs'[i].index = i
                  /\ runs'[i].call = calls[i]
                  /\ runs'[i].res.err = NoErr
                  /\ history'[Len(history) + i] = runs'[i].res.msg
                  /\ (tools[calls[i].Name] = "weather"
                        => history'[Len(history) + i].Role = "get_weather")]_vars

\* two requests for different tools were run and answered differently
C1_Witness ==
    /\ action = "callTools" /\ err = NoErr
    /\ Len(runs) = 2
    /\ runs[1].call # runs[2].call
    /\ history[Len(history) - 1] = runs[1].res.msg
    /\ history[Len(history)] = runs[2].res.msg
    /\ runs[1].res.msg # runs[2].res.msg

\* C2: when Run of the k-th request fails, callTools returns that error, runs no
\* later request and leaves the history as it was
C2_FailedBatchAppendsNothing ==
    [][(IsCallTools /\ Len(runs') >= 1 /\ runs'[Len(runs')].res.err # NoErr) =>
        LET k == Len(runs')
        IN  /\ k <= Len(Latest.ToolCalls)
            /\ \A j \in 1..k : runs'[j].index = j /\ runs'[j].call = Latest.ToolCalls[j]
            /\ \A j \in 1..(k - 1) : runs'[j].res.err = NoErr
            /\ err' = runs'[k].res.err
            /\ pc' = "done"
            /\ history' = history]_vars

\* the first of two requests succeeded and the second failed
C2_Witness ==
    /\ action = "callTools"
    /\ Len(runs) = 2
    /\ runs[1].res.err = NoErr
    /\ runs[2].res.err = "tool failed"
    /\ err = "tool failed"
    /\ Len(history[Len(history)].ToolCalls) = 2

UnknownAt(calls) == {i \in 1..Len(calls) : calls[i].Name \notin DOMAIN tools}

C4_ChatAppendsReply ==
    [][(IsChat /\ err' = NoErr) =>
        /\ history' = Append(history, received')
        /\ received' \in BackendMessages
        /\ sent'.Messages = history
        /\ ((Len(history) = 2 /\ history[1].Role = "system" /\ history[2].Role = "user")
              => Len(history') = 3
                 /\ (received'.Role = "assistant" /\ received'.ToolCalls = <<>>
                       => history'[3].Role = "assistant" /\ history'[3].ToolCalls = <<>>))]_vars

\* the round trip: [system, user] and a plain assistant reply
C4_Witness ==
    /\ action = "chat" /\ err = NoErr
    /\ Len(history) = 3
    /\ history[1].Role = "system" /\ history[2].Role = "user"
    /\ history[3] = Message("assistant", "ok", <<>>)

\* C5: a chat whose backend call fails or is cancelled returns the error and
\* leaves the history as it was
C5_FailedChatAppendsNothing ==
    [][(IsChat /\ err' # NoErr) =>
        /\ history' = history
        /\ err' \in ChatErrors
        /\ pc' = "done"]_vars

\* the call was cancelled after the callback had stored a message
C5_Witness ==
    /\ action = "chat"
    /\ err = "context canceled"
    /\ received # ZeroMessage
    /\ pc = "done"

\* an iteration of the for loop of start
Iteration == PromptStep \/ CallToolsStep \/ ChatStep

IsIteration == pc = "start" /\ action' \in {"prompt", "callTools", "chat"}

\* C6: at the head of the loop another iteration is performed exactly when
\* limit = 0 or len(history) <= limit, and start returns nil exactly when
\* limit # 0 and len(history) > limit; after the return nothing more is done
C6_LoopCondition ==
    /\ (pc = "start" /\ Explored) =>
          /\ ENABLED Iteration <=> (limit = 0 \/ Len(history) <= limit)
          /\ ENABLED Exit <=> (limit # 0 /\ Len(history) > limit)
    /\ (pc = "done" /\ action = "show") =>
          (limit # 0 /\ Len(history) > limit /\ err = NoErr)
    /\ pc = "done" => ~ENABLED Next
    /\ (pc = "done" /\ limit = 0 /\ Len(history) >= 2) => err # NoErr

\* with limit 0 the loop is still running on a history longer than any of the
\* limits the form was given
C6_WitnessForever ==
    /\ pc = "start"
    /\ limit = 0
    /\ Len(history) >= MaxHistory
    /\ action = "chat"

\* the loop stopped on the history length
C6_Witness ==
    /\ pc = "done" /\ action = "show"
    /\ limit = 3
    /\ Len(history) = 4

\* C7: every step leaves the previous history as a prefix of the new one
C7_AppendOnly == [][IsPrefix(history, history')]_vars

\* a chat, a callTools and a prompt each appended to the history in one run
C7_Witness ==
    /\ action = "prompt" /\ err = NoErr
    /\ Len(history) = 5
    /\ history[3].ToolCalls # <<>>
    /\ Len(runs) = 1
    /\ history[4] = runs[1].res.msg
    /\ history[5].Role = "user"

AssistantSpellings == {"assistant", "Assistant", "ASSISTANT"}

\* C8 as stated: the latest message decides the action: callTools when it
\* carries tool calls, prompt when it carries none and its role is exactly
\* "assistant", chat in every other case
C8_BranchOnExactRole ==
    [][IsIteration =>
        LET calls == Latest.ToolCalls
            role == Latest.Role
        IN  /\ action' = "callTools" <=> calls # <<>>
            /\ action' = "prompt" <=> (calls = <<>> /\ role = "assistant")
            /\ action' = "chat" <=> (calls = <<>> /\ role # "assistant")]_vars

\* C8 amended: the same, the role being compared without regard to case
C8_BranchOnLatest ==
    [][IsIteration =>
        LET calls == Latest.ToolCalls
            role == Latest.Role
        IN  /\ action' = "callTools" <=> calls # <<>>
            /\ action' = "prompt" <=> (calls = <<>> /\ role \in AssistantSpellings)
            /\ action' = "chat" <=> (calls = <<>> /\ role \notin AssistantSpellings)
            /\ action' = "prompt" => runs' = runs /\ sent' = sent
            /\ action' = "callTools" => sent' = sent
            /\ action' = "chat" => runs' = runs]_vars

\* the seeds were answered by a chat and its reply, a plain message of role
\* "ASSISTANT", by a prompt
C8_Witness ==
    /\ action = "prompt" /\ err = NoErr
    /\ Len(history) = 4
    /\ sent.Messages = SubSeq(history, 1, 2)
    /\ history[3].Role = "ASSISTANT"
    /\ history[3].ToolCalls = <<>>
    /\ history[4].Role = "user"

\* the longest batch of tool calls a message of the history carries, at least 1
LongestBatch ==
    LET sizes == {Len(history[i].ToolCalls) : i \in 1..Len(history)} \cup {1}
    IN  CHOOSE n \in sizes : \A k \in sizes : k <= n

\* C9 as stated: with a non-zero limit the history never holds more than
\* limit + 1 messages while start runs or after it
C9_AtMostOnePastLimit ==
    (pc \in {"start", "done"} /\ history # <<>> /\ limit # 0) => Len(history) <= limit + 1

\* C9 amended: with a non-zero limit the history holds the two seeds or at
\* most limit + k messages, k being 1 or the size of the longest batch of tool
\* calls
C9_BoundedByLimitAndBatch ==
    (pc \in {"start", "done"} /\ history # <<>> /\ limit # 0) =>
        (Len(history) = 2 \/ Len(history) <= limit + LongestBatch)

\* a batch of two tool calls took the history two messages past the limit
C9_Witness ==
    /\ limit # 0
    /\ action = "callTools" /\ err = NoErr
    /\ Len(history) = limit + 2
    /\ Len(runs) = 2

\* C10: the first error ends the session: the failing step appends nothing,
\* start returns its error, and no step follows
C10_FailFast ==
    [][/\ err = NoErr
       /\ (err' # NoErr =>
              /\ pc' = "done"
              /\ history' = history
              /\ err' \in {"user aborted", "called non-exist tool"}
                              \cup ChatErrors \cup ToolErrors)]_vars

\* a prompt of the loop was aborted
C10_Witness ==
    /\ action = "prompt"
    /\ err = "user aborted"
    /\ pc = "done"
    /\ Len(history) = 3

\* the messages of the history that carry tool calls
Batches == {k \in 1..Len(history) : history[k].ToolCalls # <<>>}

\* the batches the model backend emitted: those that are not among the
\* results of a batch
ModelBatches ==
    {k \in Batches : \A j \in 1..Len(consumed) : k < consumed[j].first \/ k > consumed[j].last}

\* the batch at k was run to the end once, and its results are the messages
\* that follow it, one for each request
ConsumedOnce(k) ==
    /\ Cardinality({j \in 1..Len(consumed) : consumed[j].at = k}) = 1
    /\ \A j \in 1..Len(consumed) :
          consumed[j].at = k =>
             LET calls == history[k].ToolCalls
             IN  /\ consumed[j].first = k + 1
                 /\ consumed[j].last = k + Len(calls)
                 /\ consumed[j].last <= Len(history)
                 /\ \A i \in 1..Len(calls) :
                       /\ calls[i].Name \in DOMAIN tools
                       /\ tools[calls[i].Name] = "weather"
                             => history[k + i] = Message("get_weather", "it is hot", <<>>)
                       /\ tools[calls[i].Name] = "tool" => history[k + i] \in ToolMessages

\* C11 as stated: over the whole run every tool-call request the model emitted
\* is consumed exactly once: when start has returned nil every such batch of the
\* history was run once and has its results
C11_EveryRequestConsumed ==
    (pc = "done" /\ err = NoErr) => \A k \in ModelBatches : ConsumedOnce(k)

\* C11 amended: no batch is run twice; every batch that a successful callTools
\* ran has exactly its results behind it, and so has every batch the model
\* emitted but one that is the latest message, which is run only if the loop
\* takes another iteration
C11_ConsumedAtMostOnce ==
    /\ \A j \in 1..Len(consumed) : consumed[j].at \in Batches /\ ConsumedOnce(consumed[j].at)
    /\ \A i, j \in 1..Len(consumed) : i < j => consumed[i].last < consumed[j].first
    /\ \A k \in ModelBatches : k < Len(history) => ConsumedOnce(k)
    /\ (action = "callTools" /\ err = NoErr) => consumed[Len(consumed)].last = Len(history)

\* two batches were run, the second one carried by a result of the first
C11_Witness ==
    /\ Len(consumed) = 2
    /\ consumed[1].last = consumed[2].at
    /\ pc = "start"

\* C12: when the form of Start has succeeded the history is exactly a
\* "system" message followed by a "user" message, neither carrying tool calls,
\* so the loop can only begin with a chat: the third message of any history is
\* a reply of the backend to a request that held the two seeds
C12_SeededHistory ==
    /\ (action = "form" /\ pc = "start") =>
          /\ Len(history) = 2
          /\ history[1].Role = "system" /\ history[1].ToolCalls = <<>>
          /\ history[2].Role = "user" /\ history[2].ToolCalls = <<>>
          /\ ~ENABLED PromptStep
          /\ ~ENABLED CallToolsStep
          /\ LoopCond => ENABLED ChatStep
    /\ (pc # "form" /\ err # "user aborted" /\ action # "form") =>
          /\ Len(history) >= 2
          /\ history[1].Role = "system" /\ history[2].Role = "user"
          /\ (action # "show" \/ Len(history) > 2) =>
                /\ Len(sent.Messages) >= 2
                /\ SubSeq(sent.Messages, 1, 2) = SubSeq(history, 1, 2)
          /\ Len(history) >= 3 => history[3] \in BackendMessages

\* the loop began with a chat on the two seeds, the system prompt being empty
C12_Witness ==
    /\ action = "chat"
    /\ sent.Messages = <<Message("system", "", <<>>), Message("user", "hi", <<>>)>>
    /\ history = sent.Messages
    /\ err = "backend error"

\* C13: every request of a chat carries the model, the whole history as it is
\* when chat is called, one descriptor for each tool of the registry, Think
\* set and Stream unset
C13_RequestContents ==
    [][IsChat =>
        /\ sent'.Model = model
        /\ sent'.Messages = history
        /\ sent'.Tools = {[Name |-> n] : n \in DOMAIN tools}
        /\ Cardinality(sent'.Tools) = Cardinality(DOMAIN tools)
        /\ sent'.Think = TRUE
        /\ sent'.Stream = FALSE]_vars

\* a later request of a run: it carries four messages, two of them results of
\* tools, and the descriptors of two tools
C13_Witness ==
    /\ action = "chat" /\ err = NoErr
    /\ Len(sent.Messages) = 4
    /\ sent.Messages[4].Role = "get_weather"
    /\ sent.Tools = {[Name |-> "get_weather"], [Name |-> "lookup"]}
    /\ Len(history) = 5

\* C14: no step changes the registry, and no step of the loop, whether it
\* succeeds or fails, changes the limit or the model
C14_RegistryReadOnly ==
    [][/\ tools' = tools
       /\ DOMAIN tools' = DOMAIN tools
       /\ pc = "start" => (limit' = limit /\ model' = model)]_vars

\* a chat and then a callTools that failed ran on the two-tool registry, the
\* form having set another model and limit than NewBrain
C14_Witness ==
    /\ action = "callTools"
    /\ err = "tool failed"
    /\ Len(sent.Messages) = 2
    /\ tools = [n \in {"get_weather", "lookup"} |-> IF n = "lookup" THEN "tool" ELSE "weather"]
    /\ limit = 3
    /\ model = "llama3"
    /\ sent.Model = model

C16_NoEmptyUserTurn ==
    [][/\ \A k \in 1..Len(history') : history'[k].Role = "user" => history'[k].Content # ""
       /\ (IsPrompt /\ err' = NoErr) =>
             /\ Len(history') = Len(history) + 1
             /\ IsPrefix(history, history')
             /\ history'[Len(history')].Role = "user"
             /\ history'[Len(history')].Content \in PromptInputs \ {""}
       /\ (IsPrompt /\ err' # NoErr) => history' = history
       /\ (pc = "form" /\ err' # NoErr) => history' = history
       /\ (pc = "form" /\ err' = NoErr) => history'[2].Content \in PromptInputs \ {""}]_vars

\* the seeded user message and one appended by a prompt of the loop
C16_Witness ==
    /\ action = "prompt" /\ err = NoErr
    /\ history[2] = Message("user", "hi", <<>>)
    /\ history[Len(history)] = Message("user", "hi", <<>>)
    /\ Len(history) > 2

\* C17: with a limit L > 0 and collaborators that return, start returns: every
\* iteration that succeeds appends at least one message, an iteration that fails
\* is the last, and at most L - 1 iterations are begun
C17_Terminates ==
    /\ [](limit > 0 => steps <= limit - 1)
    /\ [][IsIteration =>
            /\ steps' = steps + 1
            /\ err' = NoErr => Len(history') > Len(history)
            /\ err' # NoErr => pc' = "done"]_vars
    /\ ((pc = "start" /\ limit > 0) ~> pc = "done")

\* with limit 4 the loop ended on the length of the history after three
\* iterations
C17_Witness ==
    /\ pc = "done" /\ action = "show"
    /\ limit = 4
    /\ steps = 3
    /\ Len(history) = 5

\* the tools the last callTools invoked were all the built-in one
RanWeatherOnly == \A j \in 1..Len(runs) : tools[runs[j].call.Name] = "weather"

C19_SmallLimitNoIteration ==
    /\ Atoi(<<"1">>) = [ok |-> TRUE, n |-> 1]
    /\ Atoi(<<"-", "1">>) = [ok |-> TRUE, n |-> 0 - 1]
    /\ (history # <<>> /\ limit # 0 /\ limit < 2) =>
          /\ steps = 0
          /\ Len(history) = 2
          /\ history[1].Role = "system" /\ history[2].Role = "user"
          /\ runs = <<>> /\ consumed = <<>>
          /\ sent.Messages = <<>> /\ received = ZeroMessage
          /\ err = NoErr
          /\ pc = "start" => (ENABLED Exit /\ ~ENABLED Iteration)
          /\ pc = "done" => action = "show"

\* start returned nil on the limit -1 with the two seeds
C19_Witness ==
    /\ pc = "done" /\ action = "show"
    /\ limit = 0 - 1
    /\ Len(history) = 2
    /\ err = NoErr
    /\ steps = 0

====
